---- MODULE Spec2Model ----
(***************************************************************************)
(* The audio pipeline of the Whisper plugin: WhisperPlugin (main.ts) and   *)
(* AudioProcessor.  One step of the model is one turn of the JavaScript    *)
(* event loop: an event handler together with every promise continuation   *)
(* it makes runnable.  The external processes (the two ffmpeg conversions, *)
(* the duration probe, the recognizer) and the file system are the         *)
(* environment: their events and results are chosen nondeterministically.  *)
(* A behaviour follows one pipeline invocation of a freshly loaded plugin  *)
(* (single invocation in flight, spec section 5).                          *)
(***************************************************************************)
EXTENDS Naturals, FiniteSets, Sequences, TLC

VARIABLES
    isRecording,          \* WhisperPlugin.isRecording
    isProcessing,         \* WhisperPlugin.isProcessing
    notices,              \* user-facing notifications shown so far, by kind
    inserted,             \* text was inserted into the editor
    kind,                 \* the pipeline operation in flight: none, blob, file
    pc,                   \* the stage the operation is suspended in
    opState,              \* promise of processAudioBlob / transcribeExternalFile
    opError,              \* the error the operation rejected with
    rtState,              \* promise of runTranscription
    currentFfmpegCommand, \* AudioProcessor.currentFfmpegCommand
    currentChildProcess,  \* AudioProcessor.currentChildProcess
    conv,                 \* state of the two ffmpeg commands
    convSig,              \* ffmpeg processes that were sent SIGTERM
    child,                \* state of the recognizer process
    childSig,             \* the recognizer process was sent SIGTERM
    childCode,            \* exit code reported by the close event
    probe,                \* the ffprobe duration probe and its continuation
    files,                \* scratch / archive files on disk
    cancelAt,             \* what was live when cancelProcessing was called
    txtContent,           \* content of the recognizer's result artifact
    transcription,        \* runTranscription's accumulator of stdout lines
    transcript,           \* the value runTranscription resolved with
    settings,             \* WhisperPlugin.settings
    command,              \* the recognizer command line that was built
    archive,              \* the archive block's paths and progress
    invocations,          \* pipeline invocations started by the plugin
    cancelLog,            \* direct calls of cancelProcessing and their throws
    stdoutRun,            \* the stdout handler's closure: buffer, lines, progress
    stamp                 \* a timestamp string, parsed and formatted again

vars == <<isRecording, isProcessing, notices, inserted, kind, pc, opState,
          opError, rtState, currentFfmpegCommand, currentChildProcess, conv,
          convSig, child, childSig, childCode, probe, files, cancelAt,
          txtContent, transcription, transcript, settings, command, archive,
          invocations, cancelLog, stdoutRun, stamp>>

\* The data runTranscription handles.
runData == <<txtContent, transcription, transcript>>

\* State that only the specifications of one function or handler further
\* below change.
auxVars == <<settings, command, archive, invocations, cancelLog, stdoutRun,
             stamp>>

\* Bound on the number of failed attempts to open the microphone.
MaxStartFailures == 1

Conversions == {"mp3", "wav"}

\* The three scratch artifacts, in the order the cleanup deletes them.
ScratchOrder == <<"webm", "wav", "mp3">>

ScratchFiles == {ScratchOrder[i] : i \in 1..Len(ScratchOrder)}

\* The recognizer executable and its interpreter, which the plugin expects
\* on disk and never writes.
Dependencies == {"mlx_whisper", "python3"}

\* Bound on the number of stderr chunks with an error marker.
MaxStderrErrors == 1

\* Bound on the number of stdout lines received.
MaxStdoutLines == 1

\* Bound on the length of the result artifact's text.
MaxTextLen == 3

\* Text is a sequence of characters; a blank stands for any white space.
Chars == {" ", "a"}

Texts == UNION {[1..n -> Chars] : n \in 0..MaxTextLen}

\* The lines the recognizer may print on standard output.
StdoutLines == {<<"a">>}

\* A path is its list of segments, absolute or relative.
Path(isAbs, segments) == [abs |-> isAbs, segs |-> segments]

\* DEFAULT_SETTINGS of the plugin.
DEFAULT_SETTINGS ==
    [language |-> "ja", modelSize |-> "base",
     audioDir |-> Path(FALSE, <<"04_assets", "audio">>)]

NoArchive == [stage |-> "none"]

NoInvocations == [started |-> 0, inFlight |-> 0, stops |-> 0]

NoCancelCalls == [calls |-> 0, caught |-> 0, propagated |-> 0]

\* The stdout handler has not been attached.
NoStdoutRun == [stage |-> "none"]

NoStamp == [stage |-> "none"]

\* The plugin after onload, before any function of the specifications of
\* one function or handler is given its input.
InitPipeline ==
    /\ txtContent = <<>>
    /\ transcription = <<>>
    /\ transcript = <<>>
    /\ settings = DEFAULT_SETTINGS
    /\ command = <<>>
    /\ archive = NoArchive
    /\ invocations = NoInvocations
    /\ isRecording = FALSE
    /\ isProcessing = FALSE
    /\ notices = [cancelled |-> 0, failed |-> 0, saveError |-> 0, done |-> 0,
                  micFailed |-> 0, stderrError |-> 0]
    /\ inserted = FALSE
    /\ kind = "none"
    /\ pc = "idle"
    /\ opState = "none"
    /\ opError = "none"
    /\ rtState = "none"
    /\ currentFfmpegCommand = "null"
    /\ currentChildProcess = "null"
    /\ conv = [c \in Conversions |-> "none"]
    /\ convSig = {}
    /\ child = "none"
    /\ childSig = FALSE
    /\ childCode = "none"
    /\ probe = "none"
    /\ files \in {d \cup {"input"} : d \in SUBSET Dependencies}
    /\ cancelAt = [stage |-> "none", live |-> {}, files |-> {}]
    /\ cancelLog = NoCancelCalls

Init ==
    /\ InitPipeline
    /\ stdoutRun = NoStdoutRun
    /\ stamp = NoStamp

Bump(n, k) == [n EXCEPT ![k] = @ + 1]

\* The plugin's catch and finally blocks around a rejected operation: one
\* failure notice, then the processing flag is cleared.  n is the notice
\* count after the error observer calls the operation made itself.
RejectOp(err, n) ==
    /\ opState' = "rejected"
    /\ opError' = err
    /\ notices' = Bump(n, "failed")
    /\ isProcessing' = FALSE
    /\ pc' = "done"

\* The plugin's success path: insert the text when a markdown view is active.
FinishOp(view) ==
    /\ inserted' = view
    /\ notices' = IF view THEN Bump(notices, "done") ELSE notices
    /\ isProcessing' = FALSE
    /\ pc' = "done"

\* Variant of DependenciesPresent without the interpreter check.
OnlyRecognizerPresent(f) == "mlx_whisper" \in f

\* runTranscription's precondition: recognizer executable and interpreter
\* exist on disk.
DependenciesPresent(f) == "mlx_whisper" \in f /\ "python3" \in f

\* The synchronous part of runTranscription: the dependency checks, the
\* spawn of the recognizer and the start of the duration probe.  proc is the
\* value isProcessing has when the call is made.
RunTranscription(proc) ==
    IF DependenciesPresent(files)
    THEN /\ currentChildProcess' = "whisper"
         /\ child' = "running"
         /\ probe' = "pending"
         /\ rtState' = "pending"
         /\ opState' = "pending"
         /\ pc' = "recog"
         /\ isProcessing' = proc
         /\ UNCHANGED <<opError, notices>>
    ELSE /\ rtState' = "rejected"
         /\ RejectOp("DependencyMissing", notices)
         /\ UNCHANGED <<currentChildProcess, child, probe>>

\* Ribbon click while not recording.
StartRecording(ok) ==
    /\ ~isRecording
    /\ kind = "none"
    /\ IF ok
       THEN /\ isRecording' = TRUE
            /\ UNCHANGED notices
       ELSE /\ notices.micFailed < MaxStartFailures
            /\ notices' = Bump(notices, "micFailed")
            /\ UNCHANGED isRecording
    /\ UNCHANGED <<isProcessing, inserted, kind, pc, opState, opError, rtState,
                   currentFfmpegCommand, currentChildProcess, conv, convSig,
                   child, childSig, childCode, probe, files, cancelAt>>
    /\ UNCHANGED runData
    /\ UNCHANGED auxVars

\* Ribbon click while recording.
StopRecording ==
    /\ isRecording
    /\ isRecording' = FALSE
    /\ isProcessing' = TRUE
    /\ kind' = "blob"
    /\ pc' = "stopping"
    /\ UNCHANGED <<notices, inserted, opState, opError, rtState,
                   currentFfmpegCommand, currentChildProcess, conv, convSig,
                   child, childSig, childCode, probe, files, cancelAt>>
    /\ UNCHANGED runData
    /\ UNCHANGED auxVars

\* mediaRecorder.onstop: an empty blob throws before processAudio is called;
\* otherwise processAudio calls processAudioBlob, which starts writing the
\* raw scratch file.
MediaRecorderOnStop(empty) ==
    /\ pc = "stopping"
    /\ IF empty
       THEN /\ pc' = "aborted"
            /\ UNCHANGED opState
       ELSE /\ pc' = "writing"
            /\ opState' = "pending"
    /\ UNCHANGED <<isRecording, isProcessing, notices, inserted, kind, opError,
                   rtState, currentFfmpegCommand, currentChildProcess, conv,
                   convSig, child, childSig, childCode, probe, files, cancelAt>>
    /\ UNCHANGED runData
    /\ UNCHANGED auxVars

\* Variant of TranscribeFile that hands the file to the recording pipeline.
TranscribeFileViaBlob ==
    /\ kind = "none"
    /\ ~isRecording
    /\ kind' = "file"
    /\ isProcessing' = TRUE
    /\ opState' = "pending"
    /\ pc' = "writing"
    /\ UNCHANGED <<isRecording, notices, inserted, opError, rtState,
                   currentFfmpegCommand, currentChildProcess, conv, convSig,
                   child, childSig, childCode, probe, files, cancelAt>>
    /\ UNCHANGED runData
    /\ UNCHANGED auxVars

\* The transcribe-file command with a chosen file.
TranscribeFile ==
    /\ kind = "none"
    /\ ~isRecording
    /\ kind' = "file"
    /\ RunTranscription(TRUE)
    /\ UNCHANGED <<isRecording, inserted, currentFfmpegCommand, conv, convSig,
                   childSig, childCode, files, cancelAt>>
    /\ UNCHANGED runData
    /\ UNCHANGED auxVars

\* The write stream's finish event; Promise.all then calls convertToMp3 and
\* convertToWav, each storing its command in the one ffmpeg slot.
WriteFinish ==
    /\ pc = "writing"
    /\ files' = files \cup {"webm"}
    /\ conv' = [c \in Conversions |-> "created"]
    /\ currentFfmpegCommand' = "wav"
    /\ pc' = "transcoding"
    /\ UNCHANGED <<isRecording, isProcessing, notices, inserted, kind, opState,
                   opError, rtState, currentChildProcess, convSig, child,
                   childSig, childCode, probe, cancelAt>>
    /\ UNCHANGED runData
    /\ UNCHANGED auxVars

WriteError ==
    /\ pc = "writing"
    /\ RejectOp("WriteError", notices)
    /\ UNCHANGED <<isRecording, inserted, kind, rtState, currentFfmpegCommand,
                   currentChildProcess, conv, convSig, child, childSig,
                   childCode, probe, files, cancelAt>>
    /\ UNCHANGED runData
    /\ UNCHANGED auxVars

\* fluent-ffmpeg spawns the ffmpeg process some time after save().
FfmpegSpawn(c) ==
    /\ conv[c] = "created"
    /\ conv' = [conv EXCEPT ![c] = "running"]
    /\ UNCHANGED <<isRecording, isProcessing, notices, inserted, kind, pc,
                   opState, opError, rtState, currentFfmpegCommand,
                   currentChildProcess, convSig, child, childSig, childCode,
                   probe, files, cancelAt>>
    /\ UNCHANGED runData
    /\ UNCHANGED auxVars

\* Variant of PromiseAllReady that proceeds when either conversion has ended.
PromiseAnyReady(cv) == cv["mp3"] = "ended" \/ cv["wav"] = "ended"

\* The join of Promise.all over the two conversions.
PromiseAllReady(cv) == cv["mp3"] = "ended" /\ cv["wav"] = "ended"

\* Variant of FfmpegError in which the failure of one conversion also
\* terminates the other.
FfmpegErrorKillsSibling(c) ==
    /\ conv[c] \in {"created", "running"}
    /\ conv' = [conv EXCEPT ![c] = "failed"]
    /\ convSig' = convSig \cup {d \in Conversions \ {c} : conv[d] = "running"}
    /\ IF pc = "transcoding" /\ opState = "pending"
       THEN RejectOp("TranscodeError", notices)
       ELSE UNCHANGED <<opState, opError, notices, isProcessing, pc>>
    /\ UNCHANGED <<isRecording, inserted, kind, rtState, currentFfmpegCommand,
                   currentChildProcess, child, childSig, childCode,
                   probe, files, cancelAt>>
    /\ UNCHANGED runData
    /\ UNCHANGED auxVars

\* The error event of a conversion: it rejects, and Promise.all with it.
FfmpegError(c) ==
    /\ conv[c] \in {"created", "running"}
    /\ conv' = [conv EXCEPT ![c] = "failed"]
    /\ IF pc = "transcoding" /\ opState = "pending"
       THEN RejectOp("TranscodeError", notices)
       ELSE UNCHANGED <<opState, opError, notices, isProcessing, pc>>
    /\ UNCHANGED <<isRecording, inserted, kind, rtState, currentFfmpegCommand,
                   currentChildProcess, convSig, child, childSig, childCode,
                   probe, files, cancelAt>>
    /\ UNCHANGED runData
    /\ UNCHANGED auxVars

\* The end event of a conversion: the slot is cleared and the conversion
\* resolves; when both have resolved the archive block starts with mkdir.
FfmpegEnd(c, out) ==
    /\ conv[c] = "running"
    /\ c \notin convSig
    /\ conv' = [conv EXCEPT ![c] = "ended"]
    /\ currentFfmpegCommand' = "null"
    /\ files' = IF out THEN files \cup {c} ELSE files
    /\ IF pc = "transcoding" /\ opState = "pending" /\ PromiseAllReady(conv')
       THEN pc' = "mkdir"
       ELSE UNCHANGED pc
    /\ UNCHANGED <<isRecording, isProcessing, notices, inserted, kind, opState,
                   opError, rtState, currentChildProcess, convSig, child,
                   childSig, childCode, probe, cancelAt>>
    /\ UNCHANGED runData
    /\ UNCHANGED auxVars


\* Variant of ArchiveFailure whose catch does not throw again, so
\* processAudioBlob goes on to runTranscription.
ArchiveFailureSwallowed ==
    /\ notices' = Bump(notices, "saveError")
    /\ currentChildProcess' = "whisper"
    /\ child' = "running"
    /\ probe' = "pending"
    /\ rtState' = "pending"
    /\ pc' = "recog"
    /\ UNCHANGED <<opState, opError, isProcessing>>

\* The archive block's catch: the error observer is called and the error is
\* thrown again, so the operation rejects.
ArchiveFailure ==
    /\ RejectOp("ArchiveWriteError", Bump(notices, "saveError"))
    /\ UNCHANGED <<rtState, currentChildProcess, child, probe>>

\* mkdir of the archive directory has completed; then the existence check of
\* the scratch mp3 and the start of the copy.
MkdirDone(ok) ==
    /\ pc = "mkdir"
    /\ IF ok
       THEN /\ files' = files \cup {"archiveDir"}
            /\ IF "mp3" \in files
               THEN /\ pc' = "copy"
                    /\ UNCHANGED <<opState, opError, notices, isProcessing,
                                   rtState, currentChildProcess, child, probe>>
               ELSE ArchiveFailure
       ELSE /\ UNCHANGED files
            /\ ArchiveFailure
    /\ UNCHANGED <<isRecording, inserted, kind, currentFfmpegCommand, conv,
                   convSig, childSig, childCode, cancelAt>>
    /\ UNCHANGED runData
    /\ UNCHANGED auxVars

\* copyFile into the archive directory has completed; on success
\* runTranscription is called on the wav file.
CopyDone(ok) ==
    /\ pc = "copy"
    /\ IF ok
       THEN /\ files' = files \cup {"archive"}
            /\ RunTranscription(isProcessing)
       ELSE /\ UNCHANGED files
            /\ ArchiveFailure
    /\ UNCHANGED <<isRecording, inserted, kind, currentFfmpegCommand, conv,
                   convSig, childSig, childCode, cancelAt>>
    /\ UNCHANGED runData
    /\ UNCHANGED auxVars

\* The duration probe's callback and the continuation that attaches the
\* stdout, stderr and close handlers to this.currentChildProcess; with the
\* slot empty the continuation throws and attaches nothing.
ProbeDone ==
    /\ probe = "pending"
    /\ probe' = IF currentChildProcess = "null" THEN "typeError" ELSE "attached"
    /\ UNCHANGED <<isRecording, isProcessing, notices, inserted, kind, pc,
                   opState, opError, rtState, currentFfmpegCommand,
                   currentChildProcess, conv, convSig, child, childSig,
                   childCode, files, cancelAt>>
    /\ UNCHANGED runData
    /\ UNCHANGED auxVars

ExitCodes == {"0", "1", "null"}

\* The recognizer process exits: by the signal when it was sent one, else
\* with a code; it may or may not have written the result file before.
ChildExit(code, wrote, text) ==
    /\ child = "running"
    /\ code \in ExitCodes
    /\ childSig <=> (code = "null")
    /\ child' = "exited"
    /\ childCode' = code
    /\ files' = IF wrote THEN files \cup {"txt"} ELSE files
    /\ txtContent' = IF wrote THEN text ELSE txtContent
    /\ UNCHANGED <<isRecording, isProcessing, notices, inserted, kind, pc,
                   opState, opError, rtState, currentFfmpegCommand,
                   currentChildProcess, conv, convSig, childSig, probe,
                   cancelAt>>
    /\ UNCHANGED <<transcription, transcript>>
    /\ UNCHANGED auxVars

\* Variant of CloseResult that does not look at the exit code.
CloseResultIgnoresCode(code, artifact) ==
    IF artifact THEN "read" ELSE "ResultArtifactMissing"

\* What the close handler does with the exit code and the result artifact.
CloseResult(code, artifact) ==
    IF code = "0"
    THEN IF artifact THEN "read" ELSE "ResultArtifactMissing"
    ELSE "RecognitionFailed"

\* The close event of the recognizer process.  Without an attached handler
\* the event is lost.  The handler awaits readFile when the artifact exists
\* and clears the child slot only at its end.
ChildClose ==
    /\ child = "exited"
    /\ child' = "closed"
    /\ IF probe = "attached"
       THEN LET r == CloseResult(childCode, "txt" \in files) IN
            IF r = "read"
            THEN /\ pc' = "readResult"
                 /\ UNCHANGED <<rtState, opState, opError, notices,
                                isProcessing, currentChildProcess>>
            ELSE /\ rtState' = "rejected"
                 /\ RejectOp(r, notices)
                 /\ currentChildProcess' = "null"
       ELSE UNCHANGED <<pc, rtState, opState, opError, notices, isProcessing,
                        currentChildProcess>>
    /\ UNCHANGED <<isRecording, inserted, kind, currentFfmpegCommand, conv,
                   convSig, childSig, childCode, probe, files, cancelAt>>
    /\ UNCHANGED runData
    /\ UNCHANGED auxVars


IsSpace(c) == c = " "

RECURSIVE TrimStart(_)
TrimStart(t) ==
    IF t # <<>> /\ IsSpace(Head(t)) THEN TrimStart(Tail(t)) ELSE t

RECURSIVE TrimEnd(_)
TrimEnd(t) ==
    IF t # <<>> /\ IsSpace(t[Len(t)])
    THEN TrimEnd(SubSeq(t, 1, Len(t) - 1))
    ELSE t

\* String.prototype.trim
Trim(t) == TrimEnd(TrimStart(t))

RECURSIVE Flatten(_)
\* The accumulator's text: every line followed by a newline (a blank).
Flatten(lines) ==
    IF lines = <<>> THEN <<>>
    ELSE Head(lines) \o <<" ">> \o Flatten(Tail(lines))

\* Variant of ResolvedText that returns the text accumulated from stdout.
ResolvedTextFromStdout(content, lines) == Flatten(lines)

\* The value the close handler resolves with: the artifact's content,
\* trimmed.
ResolvedText(content, lines) == Trim(content)

\* The stdout handler: each complete line is appended to the accumulator
\* (line assembly and progress parsing are not part of this specification).
StdoutData(line) ==
    /\ probe = "attached"
    /\ child \in {"running", "exited"}
    /\ Len(transcription) < MaxStdoutLines
    /\ transcription' = Append(transcription, line)
    /\ UNCHANGED <<isRecording, isProcessing, notices, inserted, kind, pc,
                   opState, opError, rtState, currentFfmpegCommand,
                   currentChildProcess, conv, convSig, child, childSig,
                   childCode, probe, files, cancelAt, txtContent, transcript>>
    /\ UNCHANGED auxVars

\* Variant of StderrData in which an error marker rejects the promise.
StderrDataRejects(marker) ==
    /\ probe = "attached"
    /\ child \in {"running", "exited"}
    /\ notices.stderrError < MaxStderrErrors
    /\ IF marker
       THEN /\ rtState' = "rejected"
            /\ RejectOp("RecognitionFailed", Bump(notices, "stderrError"))
       ELSE UNCHANGED <<rtState, opState, opError, notices, isProcessing, pc>>
    /\ UNCHANGED <<isRecording, inserted, kind, currentFfmpegCommand,
                   currentChildProcess, conv, convSig, child, childSig,
                   childCode, probe, files, cancelAt>>
    /\ UNCHANGED runData
    /\ UNCHANGED auxVars

\* The stderr handler: a chunk containing an error marker is passed to the
\* error observer; nothing else changes.
StderrData(marker) ==
    /\ probe = "attached"
    /\ child \in {"running", "exited"}
    /\ notices.stderrError < MaxStderrErrors
    /\ notices' = IF marker THEN Bump(notices, "stderrError") ELSE notices
    /\ UNCHANGED <<isRecording, isProcessing, inserted, kind, pc, opState,
                   opError, rtState, currentFfmpegCommand, currentChildProcess,
                   conv, convSig, child, childSig, childCode, probe, files,
                   cancelAt>>
    /\ UNCHANGED runData
    /\ UNCHANGED auxVars

RECURSIVE UnlinkFrom(_, _, _)
\* The cleanup's unlinkSync calls inside one try block: the artifacts are
\* deleted in order and the first failing unlink (a missing file, or the
\* failAt-th call failing) ends the block.
UnlinkFrom(f, i, failAt) ==
    IF i > Len(ScratchOrder) \/ i = failAt \/ ScratchOrder[i] \notin f
    THEN f
    ELSE UnlinkFrom(f \ {ScratchOrder[i]}, i + 1, failAt)

\* The files left by processAudioBlob after runTranscription has resolved:
\* a failing read-back of the scratch mp3 throws before the cleanup.
AfterRecognition(f, readBackOk, failAt) ==
    IF readBackOk /\ "mp3" \in f THEN UnlinkFrom(f, 1, failAt) ELSE f

\* readFile of the result artifact has completed in the close handler.  On
\* success runTranscription resolves, the artifact is unlinked and the slot
\* is cleared; transcribeExternalFile resolves with it, processAudioBlob
\* goes on to read back the mp3 and clean up, and the plugin then stores
\* the audio in the vault.
ReadResultDone(ok, readBackOk, failAt, view) ==
    /\ pc = "readResult"
    /\ currentChildProcess' = "null"
    /\ IF ~ok
       THEN /\ rtState' = "rejected"
            /\ RejectOp("ResultReadError", notices)
            /\ UNCHANGED <<files, inserted, transcript>>
       ELSE /\ rtState' = "resolved"
            /\ transcript' = <<ResolvedText(txtContent, transcription)>>
            /\ IF kind = "file"
               THEN /\ files' = files \ {"txt"}
                    /\ opState' = "resolved"
                    /\ FinishOp(view)
                    /\ UNCHANGED opError
               ELSE /\ files' = AfterRecognition(files \ {"txt"}, readBackOk, failAt)
                    /\ IF readBackOk /\ "mp3" \in files
                       THEN /\ opState' = "resolved"
                            /\ pc' = "createBinary"
                            /\ UNCHANGED <<opError, notices, isProcessing,
                                           inserted>>
                       ELSE /\ RejectOp("ReadBackError", notices)
                            /\ UNCHANGED inserted
    /\ UNCHANGED <<isRecording, kind, currentFfmpegCommand, conv, convSig,
                   child, childSig, childCode, probe, cancelAt>>
    /\ UNCHANGED <<txtContent, transcription>>
    /\ UNCHANGED auxVars

\* vault.createBinary has completed in processAudio.
CreateBinaryDone(ok, view) ==
    /\ pc = "createBinary"
    /\ IF ok
       THEN FinishOp(view)
       ELSE /\ notices' = Bump(notices, "failed")
            /\ isProcessing' = FALSE
            /\ pc' = "done"
            /\ UNCHANGED inserted
    /\ UNCHANGED <<isRecording, kind, opState, opError, rtState,
                   currentFfmpegCommand, currentChildProcess, conv, convSig,
                   child, childSig, childCode, probe, files, cancelAt>>
    /\ UNCHANGED runData
    /\ UNCHANGED auxVars

\* kill('SIGTERM') on the command in the ffmpeg slot reaches a process only
\* when that command's process is running.
FfmpegSignalled(slot, cv) ==
    IF slot # "null" /\ cv[slot] = "running" THEN {slot} ELSE {}

\* Variant of ChildSignalled in which the slot is cleared without kill().
ChildSignalledNever(slot, st) == FALSE

\* kill('SIGTERM') on the handle in the child slot.
ChildSignalled(slot, st) == slot # "null" /\ st = "running"

Live == {c \in Conversions : conv[c] = "running"}
            \cup (IF child = "running" THEN {"whisper"} ELSE {})

\* Variant of CancelProcessing that also removes the scratch artifacts.
CancelProcessingRollback ==
    /\ convSig' = convSig \cup FfmpegSignalled(currentFfmpegCommand, conv)
    /\ currentFfmpegCommand' = "null"
    /\ childSig' = (childSig \/ ChildSignalled(currentChildProcess, child))
    /\ currentChildProcess' = "null"
    /\ cancelAt' = [stage |-> pc, live |-> Live, files |-> files]
    /\ files' = files \ ScratchFiles

\* Variant of CancelProcessing that signals every running process, stored
\* in a slot or not.
CancelProcessingAllLive ==
    /\ convSig' = convSig \cup {c \in Conversions : conv[c] = "running"}
    /\ currentFfmpegCommand' = "null"
    /\ childSig' = (childSig \/ child = "running")
    /\ currentChildProcess' = "null"
    /\ cancelAt' = [stage |-> pc, live |-> Live, files |-> files]
    /\ UNCHANGED files

\* AudioProcessor.cancelProcessing: each non-empty slot is signalled and
\* cleared.
CancelProcessing ==
    /\ convSig' = convSig \cup FfmpegSignalled(currentFfmpegCommand, conv)
    /\ currentFfmpegCommand' = "null"
    /\ childSig' = (childSig \/ ChildSignalled(currentChildProcess, child))
    /\ currentChildProcess' = "null"
    /\ cancelAt' = [stage |-> pc, live |-> Live, files |-> files]
    /\ UNCHANGED files

\* The cancel button.
CancelTranscription ==
    /\ isProcessing
    /\ CancelProcessing
    /\ isProcessing' = FALSE
    /\ notices' = Bump(notices, "cancelled")
    /\ UNCHANGED <<isRecording, inserted, kind, pc, opState, opError, rtState,
                   conv, child, childCode, probe>>
    /\ UNCHANGED runData
    /\ UNCHANGED auxVars

Next ==
    \/ \E ok \in BOOLEAN : StartRecording(ok)
    \/ StopRecording
    \/ \E empty \in BOOLEAN : MediaRecorderOnStop(empty)
    \/ TranscribeFile
    \/ WriteFinish
    \/ WriteError
    \/ \E c \in Conversions : FfmpegSpawn(c)
    \/ \E c \in Conversions : FfmpegError(c)
    \/ \E c \in Conversions, out \in BOOLEAN : FfmpegEnd(c, out)
    \/ \E ok \in BOOLEAN : MkdirDone(ok)
    \/ \E ok \in BOOLEAN : CopyDone(ok)
    \/ ProbeDone
    \/ \E code \in ExitCodes, wrote \in BOOLEAN, text \in Texts :
          /\ (~wrote => text = <<>>)
          /\ ChildExit(code, wrote, text)
    \/ \E line \in StdoutLines : StdoutData(line)
    \/ \E marker \in BOOLEAN : StderrData(marker)
    \/ ChildClose
    \/ \E ok, readBackOk, view \in BOOLEAN, failAt \in 0..Len(ScratchOrder) :
          ReadResultDone(ok, readBackOk, failAt, view)
    \/ \E ok, view \in BOOLEAN : CreateBinaryDone(ok, view)
    \/ CancelTranscription

Spec == Init /\ [][Next]_vars


(***************************************************************************)
(* Claims                                                                  *)
(***************************************************************************)

Settled(st) == st \in {"resolved", "rejected"}

\* C1: when cancelProcessing is called in the transcoding stage with a
\* conversion still running, every conversion running at the call has been
\* sent SIGTERM, the recognizer is never spawned and processAudioBlob never
\* resolves.
C1_CancelDuringTranscoding ==
    (cancelAt.stage = "transcoding" /\ cancelAt.live # {})
        => /\ cancelAt.live \subseteq convSig
           /\ child = "none"
           /\ opState # "resolved"

\* C2: when cancelProcessing is called while the recognizer process is
\* running, the process has been sent SIGTERM and neither runTranscription
\* nor the operation ever resolves, with the handlers attached or not.
C2_CancelDuringRecognition ==
    ("whisper" \in cancelAt.live)
        => childSig /\ rtState # "resolved" /\ opState # "resolved"

\* C2 witness: cancelled while running after the probe attached the
\* handlers; the killed process has closed and the promise is rejected.
C2_Witness ==
    /\ "whisper" \in cancelAt.live
    /\ child = "closed"
    /\ probe = "attached"
    /\ rtState = "rejected"

\* C3: an operation whose process the user's cancel terminated produces no
\* error notification, neither an error-observer call nor the plugin's
\* failure notice.
C3_CancelIsNotFailure ==
    (convSig # {} \/ childSig) => notices.failed = 0 /\ notices.saveError = 0

\* C4: the two conversions are started together, and in processAudioBlob
\* the recognizer exists only when both conversions have ended successfully.
C4_JoinBeforeRecognition ==
    /\ (conv["mp3"] = "none") <=> (conv["wav"] = "none")
    /\ (kind = "blob" /\ child # "none")
          => \A c \in Conversions : conv[c] = "ended"

C4_Witness == kind = "blob" /\ child = "running"

\* C5: once the recognizer process has closed, the probe has completed and
\* no read of the result is pending, runTranscription has settled.
C5_RunTranscriptionSettles ==
    (child = "closed" /\ probe # "pending" /\ pc # "readResult")
        => Settled(rtState)

\* C6: once the recognizer has produced a result in processAudioBlob and
\* the operation has settled, none of the three scratch artifacts is left.
C6_ScratchDeleted ==
    (kind = "blob" /\ rtState = "resolved" /\ Settled(opState))
        => files \cap ScratchFiles = {}

\* C7: after a cancel, every file that existed when cancelProcessing was
\* called still exists, unless the operation was not stopped by the cancel
\* and the recognizer went on to deliver a result.
C7_CancelDeletesNothing ==
    (cancelAt.stage # "none" /\ rtState # "resolved")
        => cancelAt.files \subseteq files

\* C7 witness: the recognizer was killed by the cancel, the operation has
\* rejected and all three scratch artifacts are still on disk.
C7_Witness ==
    /\ childSig
    /\ opState = "rejected"
    /\ ScratchFiles \subseteq cancelAt.files

\* C8: when mkdir or the copy of the archive file fails (the archive block
\* reports it to the error observer), the operation rejects with that error
\* and the recognizer is never spawned.
C8_ArchiveFailureAborts ==
    notices.saveError > 0
        => /\ opState = "rejected"
           /\ opError = "ArchiveWriteError"
           /\ rtState = "none"
           /\ child = "none"

\* C8 witness: the directory was created and the copy failed.
C8_Witness ==
    /\ opError = "ArchiveWriteError"
    /\ "archiveDir" \in files
    /\ "mp3" \in files

\* C9: a runTranscription call with the recognizer executable or the
\* interpreter missing rejects without spawning a process and leaves both
\* handle slots as they were.
C9_DependencyMissing ==
    [][(rtState = "none" /\ rtState' # "none" /\ ~(Dependencies \subseteq files))
          => /\ rtState' = "rejected"
             /\ opError' = "DependencyMissing"
             /\ child' = "none"
             /\ probe' = "none"
             /\ UNCHANGED <<currentChildProcess, currentFfmpegCommand>>]_vars

\* C9 witness: processAudioBlob reached runTranscription without the
\* interpreter on disk.
C9_Witness ==
    /\ kind = "blob"
    /\ opError = "DependencyMissing"
    /\ "python3" \notin files
    /\ "mlx_whisper" \in files

\* C10: when the recognizer's close event reports code 0 and no result
\* artifact exists, runTranscription rejects with the result-missing error;
\* and it never resolves unless the artifact exists and the code is 0.
C10_MissingArtifactRejects ==
    [][/\ (child = "exited" /\ child' = "closed" /\ childCode = "0"
              /\ "txt" \notin files)
          => (rtState' = "rejected" /\ opError' = "ResultArtifactMissing")
       /\ (rtState # "resolved" /\ rtState' = "resolved")
          => ("txt" \in files /\ childCode = "0")]_vars


\* C11: when runTranscription resolves, its value is the artifact's content
\* without its leading and trailing white space, whatever the accumulator
\* of stdout lines holds.
C11_TranscriptIsTrimmedArtifact ==
    rtState = "resolved"
        => \E i, j \in 0..Len(txtContent) :
              /\ i + j <= Len(txtContent)
              /\ transcript = <<SubSeq(txtContent, i + 1, Len(txtContent) - j)>>
              /\ \A k \in 1..i : IsSpace(txtContent[k])
              /\ \A k \in (Len(txtContent) - j + 1)..Len(txtContent) :
                    IsSpace(txtContent[k])
              /\ LET t == transcript[1] IN
                    t = <<>> \/ (~IsSpace(t[1]) /\ ~IsSpace(t[Len(t)]))

\* C11 witness: resolved with stdout lines received and an artifact whose
\* content has white space around its text.
C11_Witness ==
    /\ rtState = "resolved"
    /\ transcription # <<>>
    /\ transcript # <<<<>>>>
    /\ Len(transcript[1]) < Len(txtContent)

\* C12: a stderr chunk with an error marker is passed to the error observer
\* and neither settles the promise nor signals or ends the process; the
\* promise settles only in the close handler or its readFile continuation.
C12_SettlesOnlyOnClose ==
    [][/\ (notices'.stderrError # notices.stderrError)
             => UNCHANGED <<rtState, opState, child, childSig, childCode>>
       /\ (rtState = "pending" /\ rtState' # "pending")
             => (child' = "closed" /\ (child = "exited" \/ pc = "readResult"))]_vars

\* C12 witness: an error was reported from stderr and the run is going on.
C12_Witness ==
    /\ notices.stderrError > 0
    /\ rtState = "pending"
    /\ child = "running"

C15_SingleNotification ==
    opState = "rejected"
        => notices.failed + notices.saveError + notices.stderrError = 1

\* C16: a conversion that completes has its output file on disk.
C16_ConversionOutput ==
    [][\A c \in Conversions :
          (conv[c] # "ended" /\ conv'[c] = "ended") => c \in files']_vars

\* C17: transcribeExternalFile starts no conversion, writes no scratch
\* audio and no archive, leaves the given file in place, and resolves only
\* with runTranscription's result.
C17_ExternalFileFrame ==
    kind = "file"
        => /\ \A c \in Conversions : conv[c] = "none"
           /\ currentFfmpegCommand = "null"
           /\ files \cap (ScratchFiles \cup {"archiveDir", "archive"}) = {}
           /\ "input" \in files
           /\ notices.saveError = 0
           /\ (opState = "resolved" => rtState = "resolved")

C17_Witness == kind = "file" /\ opState = "resolved" /\ inserted

\* C20: when cancelProcessing returns, every process that was running has
\* been sent SIGTERM and both slots are empty.
C20_CancelSignalsAll ==
    [][(cancelAt' # cancelAt)
          => /\ Live \subseteq
                   (convSig' \cup (IF childSig' THEN {"whisper"} ELSE {}))
             /\ currentFfmpegCommand' = "null"
             /\ currentChildProcess' = "null"]_vars


----------------------------------------------------------------------------
\* The plugin's entry points without the one-invocation restriction of Spec:
\* the handlers of main.ts as they are guarded in the code, counting the
\* pipeline invocations started and not yet settled.

pipelineVars == <<inserted, kind, pc, opState, opError, rtState,
                  currentFfmpegCommand, currentChildProcess, conv, convSig,
                  child, childSig, childCode, probe, files, cancelAt,
                  txtContent, transcription, transcript, cancelLog, stdoutRun,
                  stamp>>

\* Most invocations started in one behaviour.
MaxInvocations == 3

\* Most cancel notices in one behaviour.
MaxCancels == 2

\* A click on the ribbon icon: stopRecording when recording, else
\* startRecording, which fails when the microphone is refused.
RibbonClick(micOk) ==
    /\ IF isRecording
       THEN /\ isRecording' = FALSE
            /\ isProcessing' = TRUE
            /\ invocations' = [invocations EXCEPT !.stops = @ + 1]
            /\ UNCHANGED notices
       ELSE /\ invocations.started + invocations.stops < MaxInvocations
            /\ IF micOk
               THEN /\ isRecording' = TRUE
                    /\ UNCHANGED notices
               ELSE /\ notices.micFailed < MaxStartFailures
                    /\ notices' = Bump(notices, "micFailed")
                    /\ UNCHANGED isRecording
            /\ UNCHANGED <<isProcessing, invocations>>
    /\ UNCHANGED <<settings, command, archive>>
    /\ UNCHANGED pipelineVars

\* The recorder's stop event: processAudio calls processAudioBlob unless the
\* recording is empty.
OnStop(empty) ==
    /\ invocations.stops > 0
    /\ invocations' =
          IF empty
          THEN [invocations EXCEPT !.stops = @ - 1]
          ELSE [invocations EXCEPT !.stops = @ - 1, !.started = @ + 1,
                                   !.inFlight = @ + 1]
    /\ UNCHANGED <<isRecording, isProcessing, notices>>
    /\ UNCHANGED <<settings, command, archive>>
    /\ UNCHANGED pipelineVars

\* The transcribe-file command with a chosen file: transcribeExternalFile of
\* the plugin calls the processor whatever else is going on.
TranscribeFileCommand ==
    /\ invocations.started + invocations.stops < MaxInvocations
    /\ isProcessing' = TRUE
    /\ invocations' = [invocations EXCEPT !.started = @ + 1,
                                          !.inFlight = @ + 1]
    /\ UNCHANGED <<isRecording, notices>>
    /\ UNCHANGED <<settings, command, archive>>
    /\ UNCHANGED pipelineVars

\* An invocation settles and the plugin's try/catch/finally runs: a
\* completion notice with an active view, a failure notice on rejection.
InvocationSettles(outcome) ==
    /\ invocations.inFlight > 0
    /\ invocations' = [invocations EXCEPT !.inFlight = @ - 1]
    /\ isProcessing' = FALSE
    /\ notices' = IF outcome = "noView" THEN notices
                  ELSE Bump(notices, outcome)
    /\ UNCHANGED isRecording
    /\ UNCHANGED <<settings, command, archive>>
    /\ UNCHANGED pipelineVars

\* A click on the cancel button.
CancelClick ==
    /\ isProcessing
    /\ notices.cancelled < MaxCancels
    /\ isProcessing' = FALSE
    /\ notices' = Bump(notices, "cancelled")
    /\ UNCHANGED <<isRecording, invocations>>
    /\ UNCHANGED <<settings, command, archive>>
    /\ UNCHANGED pipelineVars

NextPlugin ==
    \/ \E micOk \in BOOLEAN : RibbonClick(micOk)
    \/ \E empty \in BOOLEAN : OnStop(empty)
    \/ TranscribeFileCommand
    \/ \E outcome \in {"done", "failed", "noView"} : InvocationSettles(outcome)
    \/ CancelClick

SpecPlugin == Init /\ [][NextPlugin]_vars

\* C13: at most one pipeline invocation is in flight at any time.
C13_SingleInvocation == invocations.inFlight <= 1

----------------------------------------------------------------------------
\* The archive directory of processAudioBlob as a function of the base path
\* the plugin passes and of the audioDir setting.  A path is its root flag
\* and its segments; no segment is "." or "..".

BasePaths ==
    {Path(TRUE, <<>>), Path(TRUE, <<"vault">>), Path(TRUE, <<"home", "vault">>)}

AudioDirs ==
    {Path(FALSE, <<"04_assets", "audio">>), Path(FALSE, <<"audio">>),
     Path(FALSE, <<>>), Path(TRUE, <<"srv", "audio">>), Path(TRUE, <<>>)}

\* path.dirname: the path without its last segment; the root is its own
\* parent and a single relative segment has the parent ".".
Dirname(p) ==
    IF p.segs = <<>> THEN p
    ELSE Path(p.abs, SubSeq(p.segs, 1, Len(p.segs) - 1))

\* path.resolve of one argument: an absolute path is returned as it is, a
\* relative one is appended to the working directory.
Resolve(cwd, p) == IF p.abs THEN p ELSE Path(TRUE, cwd.segs \o p.segs)

IsAbsolute(p) == p.abs

\* path.join of two paths.
Join(a, b) == Path(a.abs, a.segs \o b.segs)

\* The directory processAudioBlob archives into.
AbsoluteAudioDir(pluginDir, audioDir) ==
    LET vaultBasePath == Resolve(Path(TRUE, <<>>), Dirname(pluginDir)) IN
    IF IsAbsolute(audioDir) THEN audioDir ELSE Join(vaultBasePath, audioDir)

\* The audioDir text field of the settings tab.
SetAudioDir(dir) ==
    /\ settings' = [settings EXCEPT !.audioDir = dir]
    /\ UNCHANGED <<command, archive, invocations>>
    /\ UNCHANGED <<isRecording, isProcessing, notices>>
    /\ UNCHANGED pipelineVars

\* processAudio hands the vault's base path to processAudioBlob, which
\* computes the archive directory; the directory may or may not exist.
ArchiveResolve(base, exists) ==
    /\ archive.stage = "none"
    /\ archive' = [stage |-> "resolved", base |-> base,
                   audioDir |-> settings.audioDir,
                   dir |-> AbsoluteAudioDir(base, settings.audioDir),
                   dirs |-> IF exists
                            THEN {AbsoluteAudioDir(base, settings.audioDir)}
                            ELSE {},
                   copies |-> {}]
    /\ UNCHANGED <<settings, command, invocations>>
    /\ UNCHANGED <<isRecording, isProcessing, notices>>
    /\ UNCHANGED pipelineVars

\* fs.promises.mkdir with recursive: true.
ArchiveMkdir(ok) ==
    /\ archive.stage = "resolved"
    /\ archive' = IF ok
                  THEN [archive EXCEPT !.stage = "made", !.dirs = @ \cup {archive.dir}]
                  ELSE [archive EXCEPT !.stage = "failed"]
    /\ UNCHANGED <<settings, command, invocations>>
    /\ UNCHANGED <<isRecording, isProcessing, notices>>
    /\ UNCHANGED pipelineVars

\* fs.promises.copyFile into the archive directory.
ArchiveCopy(ok) ==
    /\ archive.stage = "made"
    /\ archive' = IF ok
                  THEN [archive EXCEPT !.stage = "copied",
                                       !.copies = {Join(archive.dir, Path(FALSE, <<"mp3">>))}]
                  ELSE [archive EXCEPT !.stage = "failed"]
    /\ UNCHANGED <<settings, command, invocations>>
    /\ UNCHANGED <<isRecording, isProcessing, notices>>
    /\ UNCHANGED pipelineVars

NextPath ==
    \/ \E dir \in AudioDirs : SetAudioDir(dir)
    \/ \E base \in BasePaths, exists \in BOOLEAN : ArchiveResolve(base, exists)
    \/ \E ok \in BOOLEAN : ArchiveMkdir(ok)
    \/ \E ok \in BOOLEAN : ArchiveCopy(ok)

SpecPath == Init /\ [][NextPath]_vars

\* C18: a relative audioDir is resolved against the base path passed by the
\* plugin, an absolute one is used unchanged, and the directory exists
\* before the copy is attempted.
C18_ArchiveDirResolution ==
    archive.stage # "none"
        => /\ archive.dir = IF archive.audioDir.abs THEN archive.audioDir
                            ELSE Path(TRUE, archive.base.segs \o archive.audioDir.segs)
           /\ (archive.stage \in {"made", "copied"} => archive.dir \in archive.dirs)

----------------------------------------------------------------------------
\* The recognizer command of runTranscription as a function of the settings.
\* An argument is the sequence of the parts it is concatenated from.

Languages == {"ja", "en", ""}

ModelSizes == {"tiny", "base", "small", "medium", "large"}

\* The language text field of the settings tab.
SetLanguage(value) ==
    /\ settings' = [settings EXCEPT !.language = value]
    /\ UNCHANGED <<command, archive, invocations>>
    /\ UNCHANGED <<isRecording, isProcessing, notices>>
    /\ UNCHANGED pipelineVars

\* The model size dropdown of the settings tab.
SetModelSize(value) ==
    /\ settings' = [settings EXCEPT !.modelSize = value]
    /\ UNCHANGED <<command, archive, invocations>>
    /\ UNCHANGED <<isRecording, isProcessing, notices>>
    /\ UNCHANGED pipelineVars

\* The argument list runTranscription spawns the interpreter with.
WhisperCommand(s) ==
    << <<"mlxWhisperPath">>, <<"audioPath">>,
       <<"--model">>, <<"mlx-community/whisper-large-v3-turbo">>,
       <<"--language">>, <<s.language>>,
       <<"--output-format">>, <<"txt">>,
       <<"--output-dir">>, <<"tempDir">>,
       <<"--condition-on-previous-text">>, <<"False">> >>

\* The argument list of the second implementation of runTranscription.
WhisperCommandSecond(s) ==
    << <<"mlxWhisperPath">>, <<"audioPath">>,
       <<"--model">>, <<"mlx-community/whisper-", s.modelSize, "-v3-turbo">>,
       <<"--language">>, <<s.language>>,
       <<"--output-format">>, <<"txt">>,
       <<"--output-dir">>, <<"tempDir">>,
       <<"--verbose">>, <<"False">> >>

\* runTranscription builds its command from the settings it is given.
BuildCommand ==
    /\ command' = <<[argv |-> WhisperCommand(settings), settings |-> settings]>>
    /\ UNCHANGED <<settings, archive, invocations>>
    /\ UNCHANGED <<isRecording, isProcessing, notices>>
    /\ UNCHANGED pipelineVars

BuildCommandSecond ==
    /\ command' = <<[argv |-> WhisperCommandSecond(settings), settings |-> settings]>>
    /\ UNCHANGED <<settings, archive, invocations>>
    /\ UNCHANGED <<isRecording, isProcessing, notices>>
    /\ UNCHANGED pipelineVars

NextCommand ==
    \/ \E value \in Languages : SetLanguage(value)
    \/ \E value \in ModelSizes : SetModelSize(value)
    \/ BuildCommand
    \/ BuildCommandSecond

SpecCommand == Init /\ [][NextCommand]_vars

\* The arguments that follow a flag in an argument list.
FlagValues(argv, flag) ==
    {argv[i + 1] : i \in {j \in 1..(Len(argv) - 1) : argv[j] = <<flag>>}}

\* C19: the command holds --language <language> and a --model id that
\* contains the modelSize string.
C19_CommandFollowsSettings ==
    command # <<>>
        => LET c == command[1] IN
           /\ <<c.settings.language>> \in FlagValues(c.argv, "--language")
           /\ \E a \in FlagValues(c.argv, "--model") :
                 \E k \in DOMAIN a : a[k] = c.settings.modelSize


----------------------------------------------------------------------------
\* C22: a non-empty handle slot refers to a process that has not finished,
\* and once the invocation has settled both slots are empty.
C22_SlotsTrackRunning ==
    /\ currentFfmpegCommand # "null"
          => conv[currentFfmpegCommand] \in {"created", "running"}
    /\ currentChildProcess # "null" => child \in {"running", "exited"}
    /\ Settled(opState)
          => currentFfmpegCommand = "null" /\ currentChildProcess = "null"

\* C30: cancelProcessing signals nothing but the handles in the two slots;
\* called with both slots empty it changes nothing of the processor, of the
\* processes or of the invocation, which goes on to its later stages.
C30_CancelActsOnSlotsOnly ==
    [][(cancelAt' # cancelAt)
          => /\ convSig' \ convSig \subseteq {currentFfmpegCommand}
             /\ (childSig' # childSig => currentChildProcess # "null")
             /\ (currentFfmpegCommand = "null" /\ currentChildProcess = "null")
                   => UNCHANGED <<currentFfmpegCommand, currentChildProcess,
                                  conv, convSig, child, childSig, childCode,
                                  probe, files, kind, pc, opState, opError,
                                  rtState>>]_vars

\* C30 witness: cancelProcessing was called with both slots empty while the
\* raw file was being written or during the archive block, and the
\* recognizer was spawned afterwards.
C30_Witness ==
    /\ cancelAt.stage \in {"writing", "mkdir", "copy"}
    /\ kind = "blob"
    /\ child = "running"


----------------------------------------------------------------------------
\* cancelProcessing as a public method: called at any moment of a pipeline
\* invocation, any number of times, with kill() that may throw.

\* Most direct calls of cancelProcessing in one behaviour.
MaxCancelCalls == 2

\* What one call of cancelProcessing does with the slots ff and ch: a slot
\* whose kill() returns is signalled and cleared; a kill() that throws
\* leaves the try block before the slot is cleared and is caught.
CancelOutcome(ff, ch, ffThrows, chThrows) ==
    [ff |-> IF ff # "null" /\ ~ffThrows THEN "null" ELSE ff,
     ch |-> IF ch # "null" /\ ~chThrows THEN "null" ELSE ch,
     sigF |-> IF ffThrows THEN {} ELSE FfmpegSignalled(ff, conv),
     sigC |-> ~chThrows /\ ChildSignalled(ch, child),
     caught |-> (IF ff # "null" /\ ffThrows THEN 1 ELSE 0)
                   + (IF ch # "null" /\ chThrows THEN 1 ELSE 0)]

\* Variant of CancelProcessingCall without the try/catch around the first
\* kill(): the exception leaves the method.
CancelProcessingCallUncaught(ffThrows, chThrows) ==
    /\ cancelLog.calls < MaxCancelCalls
    /\ IF currentFfmpegCommand # "null" /\ ffThrows
       THEN /\ cancelLog' = [cancelLog EXCEPT !.calls = @ + 1,
                                              !.propagated = @ + 1]
            /\ UNCHANGED <<currentFfmpegCommand, currentChildProcess, convSig,
                           childSig>>
       ELSE LET o == CancelOutcome(currentFfmpegCommand, currentChildProcess,
                                   ffThrows, chThrows) IN
            /\ currentFfmpegCommand' = o.ff
            /\ currentChildProcess' = o.ch
            /\ convSig' = convSig \cup o.sigF
            /\ childSig' = (childSig \/ o.sigC)
            /\ cancelLog' = [cancelLog EXCEPT !.calls = @ + 1,
                                              !.caught = @ + o.caught]
    /\ UNCHANGED <<isRecording, isProcessing, notices, inserted, kind, pc,
                   opState, opError, rtState, conv, child, childCode, probe,
                   files, cancelAt>>
    /\ UNCHANGED runData
    /\ UNCHANGED <<settings, command, archive, invocations, stdoutRun, stamp>>

\* AudioProcessor.cancelProcessing called directly.
CancelProcessingCall(ffThrows, chThrows) ==
    /\ cancelLog.calls < MaxCancelCalls
    /\ LET o == CancelOutcome(currentFfmpegCommand, currentChildProcess,
                              ffThrows, chThrows) IN
       /\ currentFfmpegCommand' = o.ff
       /\ currentChildProcess' = o.ch
       /\ convSig' = convSig \cup o.sigF
       /\ childSig' = (childSig \/ o.sigC)
       /\ cancelLog' = [cancelLog EXCEPT !.calls = @ + 1,
                                         !.caught = @ + o.caught]
    /\ UNCHANGED <<isRecording, isProcessing, notices, inserted, kind, pc,
                   opState, opError, rtState, conv, child, childCode, probe,
                   files, cancelAt>>
    /\ UNCHANGED runData
    /\ UNCHANGED <<settings, command, archive, invocations, stdoutRun, stamp>>

NextCancel ==
    \/ \E ok \in BOOLEAN : StartRecording(ok)
    \/ StopRecording
    \/ \E empty \in BOOLEAN : MediaRecorderOnStop(empty)
    \/ TranscribeFile
    \/ WriteFinish
    \/ WriteError
    \/ \E c \in Conversions : FfmpegSpawn(c)
    \/ \E c \in Conversions : FfmpegError(c)
    \/ \E c \in Conversions, out \in BOOLEAN : FfmpegEnd(c, out)
    \/ \E ok \in BOOLEAN : MkdirDone(ok)
    \/ \E ok \in BOOLEAN : CopyDone(ok)
    \/ ProbeDone
    \/ \E code \in ExitCodes, wrote \in BOOLEAN :
          ChildExit(code, wrote, IF wrote THEN <<"a">> ELSE <<>>)
    \/ ChildClose
    \/ \E ok, readBackOk, view \in BOOLEAN, failAt \in 0..Len(ScratchOrder) :
          ReadResultDone(ok, readBackOk, failAt, view)
    \/ \E ok, view \in BOOLEAN : CreateBinaryDone(ok, view)
    \/ CancelTranscription
    \/ \E ffThrows, chThrows \in BOOLEAN : CancelProcessingCall(ffThrows, chThrows)

SpecCancel == Init /\ [][NextCancel]_vars

----------------------------------------------------------------------------
\* parseTimestamp and formatTime as functions.  A string is the sequence of
\* its characters; a time is a whole number of milliseconds (the code's
\* number of seconds, times 1000).

Digits == <<"0", "1", "2", "3", "4", "5", "6", "7", "8", "9">>

IsDigit(c) == \E d \in 1..Len(Digits) : Digits[d] = c

DigitValue(c) == (CHOOSE d \in 1..Len(Digits) : Digits[d] = c) - 1

RECURSIVE ParseInt(_)
\* parseInt(s, 10) of a string of digits.
ParseInt(str) ==
    IF str = <<>> THEN 0
    ELSE 10 * ParseInt(SubSeq(str, 1, Len(str) - 1)) + DigitValue(str[Len(str)])

RECURSIVE NumberToString(_)
\* Number.prototype.toString of a natural number.
NumberToString(n) ==
    IF n < 10 THEN <<Digits[n + 1]>>
    ELSE NumberToString(n \div 10) \o <<Digits[(n % 10) + 1]>>

\* padStart(width, '0').
PadStart(str, width) ==
    [i \in 1..(width - Len(str)) |-> "0"] \o str

\* The fields of the timestamps the recognizer prints.
HourFields == {0, 1, 10}

MinuteFields == {0, 4, 59}

SecondFields == {0, 4, 59}

MilliFields == {0, 200, 999}

\* The text [HH:]MM:SS.mmm of a timestamp with the given fields.
TimestampText(hasHours, h, m, sec, ms) ==
    (IF hasHours THEN PadStart(NumberToString(h), 2) \o <<":">> ELSE <<>>)
        \o PadStart(NumberToString(m), 2) \o <<":">>
        \o PadStart(NumberToString(sec), 2) \o <<".">>
        \o PadStart(NumberToString(ms), 3)

Timestamps ==
    {[hasHours |-> hh, h |-> IF hh THEN h ELSE 0, m |-> m, s |-> sec, ms |-> ms,
      text |-> TimestampText(hh, h, m, sec, ms)] :
        hh \in BOOLEAN, h \in HourFields, m \in MinuteFields,
        sec \in SecondFields, ms \in MilliFields}

\* The groups of /^(?:(\d{2}):)?(\d{2}):(\d{2})\.(\d{3})$/ on a string, or
\* no match.
TimestampMatch(str) ==
    LET short == /\ Len(str) = 9
                 /\ \A i \in {1, 2, 4, 5, 7, 8, 9} : IsDigit(str[i])
                 /\ str[3] = ":" /\ str[6] = "."
        long == /\ Len(str) = 12
                /\ \A i \in {1, 2, 4, 5, 7, 8, 10, 11, 12} : IsDigit(str[i])
                /\ str[3] = ":" /\ str[6] = ":" /\ str[9] = "."
    IN  IF long
        THEN <<SubSeq(str, 1, 2), SubSeq(str, 4, 5), SubSeq(str, 7, 8),
               SubSeq(str, 10, 12)>>
        ELSE IF short
        THEN <<<<>>, SubSeq(str, 1, 2), SubSeq(str, 4, 5), SubSeq(str, 7, 9)>>
        ELSE <<>>

\* Variant of ParseTimestampMs that reads the hour group as minutes.
ParseTimestampHoursAsMinutes(str) ==
    LET match == TimestampMatch(str) IN
    IF match = <<>> THEN 0
    ELSE LET hours == IF match[1] # <<>> THEN ParseInt(match[1]) ELSE 0 IN
         (hours * 60000) + (ParseInt(match[2]) * 60000)
            + (ParseInt(match[3]) * 1000) + ParseInt(match[4])

\* AudioProcessor.parseTimestamp, in milliseconds.
ParseTimestampMs(str) ==
    LET match == TimestampMatch(str) IN
    IF match = <<>> THEN 0
    ELSE LET hours == IF match[1] # <<>> THEN ParseInt(match[1]) ELSE 0
             minutes == ParseInt(match[2])
             seconds == ParseInt(match[3])
             milliseconds == ParseInt(match[4])
         IN  (hours * 3600000) + (minutes * 60000) + (seconds * 1000)
                + milliseconds

\* AudioProcessor.formatTime of a time in milliseconds.
FormatTime(timeMs) ==
    LET hours == timeMs \div 3600000
        minutes == (timeMs % 3600000) \div 60000
        seconds == (timeMs % 60000) \div 1000
    IN  IF hours > 0
        THEN NumberToString(hours) \o <<":">> \o PadStart(NumberToString(minutes), 2)
                \o <<":">> \o PadStart(NumberToString(seconds), 2)
        ELSE NumberToString(minutes) \o <<":">> \o PadStart(NumberToString(seconds), 2)

InitTime ==
    /\ InitPipeline
    /\ stdoutRun = NoStdoutRun
    /\ stamp \in {[stage |-> "input", x |-> x] : x \in Timestamps}

\* parseTimestamp is applied to the timestamp.
ParseStep ==
    /\ stamp.stage = "input"
    /\ stamp' = [stage |-> "parsed", x |-> stamp.x,
                 parsed |-> ParseTimestampMs(stamp.x.text)]
    /\ UNCHANGED <<settings, command, archive, invocations, stdoutRun>>
    /\ UNCHANGED <<isRecording, isProcessing, notices>>
    /\ UNCHANGED <<inserted, kind, pc, opState, opError, rtState,
                   currentFfmpegCommand, currentChildProcess, conv, convSig,
                   child, childSig, childCode, probe, files, cancelAt,
                   cancelLog>>
    /\ UNCHANGED runData

\* formatTime is applied to the parsed time.
FormatStep ==
    /\ stamp.stage = "parsed"
    /\ stamp' = [stage |-> "formatted", x |-> stamp.x, parsed |-> stamp.parsed,
                 formatted |-> FormatTime(stamp.parsed)]
    /\ UNCHANGED <<settings, command, archive, invocations, stdoutRun>>
    /\ UNCHANGED <<isRecording, isProcessing, notices>>
    /\ UNCHANGED <<inserted, kind, pc, opState, opError, rtState,
                   currentFfmpegCommand, currentChildProcess, conv, convSig,
                   child, childSig, childCode, probe, files, cancelAt,
                   cancelLog>>
    /\ UNCHANGED runData

NextTime == ParseStep \/ FormatStep

SpecTime == InitTime /\ [][NextTime]_vars

\* C26: parseTimestamp of [HH:]MM:SS.mmm is hours*3600 + minutes*60 +
\* seconds + millis/1000 (here times 1000), with hours 0 when omitted.
C26_ParseTimestampValue ==
    stamp.stage \in {"parsed", "formatted"}
        => stamp.parsed = (stamp.x.h * 3600000) + (stamp.x.m * 60000)
                             + (stamp.x.s * 1000) + stamp.x.ms

\* C26 witness: a timestamp with hours, minutes, seconds and milliseconds
\* all different from zero was parsed.
C26_Witness ==
    /\ stamp.stage = "parsed"
    /\ stamp.x.hasHours
    /\ stamp.x.h > 0 /\ stamp.x.m > 0 /\ stamp.x.s > 0 /\ stamp.x.ms > 0

\* C27: formatTime(parseTimestamp(x)) is x's display form [H:]MM:SS: x's
\* hour, minute and second fields, minutes and seconds with two digits, the
\* hour field present exactly when x has hours.
C27_FormatParseRoundTrip ==
    stamp.stage = "formatted"
        => stamp.formatted =
              (IF stamp.x.hasHours THEN NumberToString(stamp.x.h) \o <<":">> ELSE <<>>)
                 \o PadStart(NumberToString(stamp.x.m), 2) \o <<":">>
                 \o PadStart(NumberToString(stamp.x.s), 2)


----------------------------------------------------------------------------
\* The stdout handler of runTranscription on complete lines: the timestamp
\* match, the elapsed time, the monotonic guard and the percent.

\* Most stdout lines in one run.
MaxLines == 3

\* A timestamp as the recognizer prints it.
Stamp(hasHours, h, m, sec, ms) ==
    [hasHours |-> hasHours, h |-> h, m |-> m, s |-> sec, ms |-> ms,
     text |-> TimestampText(hasHours, h, m, sec, ms)]

\* The time a timestamp denotes, in milliseconds.
StampMs(x) == (x.h * 3600000) + (x.m * 60000) + (x.s * 1000) + x.ms

TextLine == [kind |-> "text", start |-> Stamp(FALSE, 0, 0, 0, 0),
             end |-> Stamp(FALSE, 0, 0, 0, 0)]

StampLine(from, to) == [kind |-> "stamp", start |-> from, end |-> to]

\* The lines a run is made of: plain text and bracketed [start --> end]
\* lines, with and without hours.
ProgressLines ==
    {TextLine,
     StampLine(Stamp(FALSE, 0, 0, 1, 500), Stamp(FALSE, 0, 0, 4, 200)),
     StampLine(Stamp(FALSE, 0, 0, 4, 200), Stamp(FALSE, 0, 0, 12, 0)),
     StampLine(Stamp(TRUE, 0, 0, 1, 500), Stamp(TRUE, 0, 0, 4, 200)),
     StampLine(Stamp(FALSE, 0, 59, 58, 0), Stamp(TRUE, 1, 0, 2, 0))}

\* The duration ffprobe reports, in milliseconds; 0 when it reports none.
Durations == {0, 10000}

\* The groups of (?:(\d{2}):)?(\d{2}):(\d{2}\.\d{3}) on a timestamp.
StampGroups(str) ==
    IF Len(str) = 12
    THEN <<SubSeq(str, 1, 2), SubSeq(str, 4, 5), SubSeq(str, 7, 12)>>
    ELSE <<<<>>, SubSeq(str, 1, 2), SubSeq(str, 4, 9)>>

\* line.match(...) of the stdout handler: the six groups, or no match.
TimestampLineMatch(line) ==
    IF line.kind = "stamp"
    THEN StampGroups(line.start.text) \o StampGroups(line.end.text)
    ELSE <<>>

\* The string handed to parseTimestamp.
EndTimeStr(match) ==
    IF match[4] # <<>>
    THEN match[4] \o <<":">> \o match[5] \o <<":">> \o match[6]
    ELSE match[2] \o <<":">> \o match[3]

\* Variant of Advances without the comparison.
AdvancesAlways(currentTime, last) == TRUE

\* The monotonic guard.
Advances(currentTime, last) == currentTime > last

Min(a, b) == IF a < b THEN a ELSE b

\* Math.round of a / b for naturals a and b > 0.
Round(a, b) == ((2 * a) + b) \div (2 * b)

\* Variant of Percent without Math.min.
PercentUnclamped(currentTime, totalDuration) ==
    Round(currentTime * 100, totalDuration)

\* Math.min(Math.round((currentTime / totalDuration) * 100), 100); a
\* positive time divided by 0 is Infinity.
Percent(currentTime, totalDuration) ==
    IF totalDuration = 0 THEN 100
    ELSE Min(Round(currentTime * 100, totalDuration), 100)

\* Variant of DurationKnown that takes every duration as known.
DurationIgnored(totalDuration) == TRUE

\* The test of totalDuration in the progress branch: null and 0 are falsy.
DurationKnown(totalDuration) == totalDuration # 0

\* Variant of Emit in which the observer receives the event before the
\* ones already emitted.
EmitFirst(events, e) == <<e>> \o events

\* onProgressUpdate is called with the event.
Emit(events, e) == Append(events, e)

InitProgress ==
    /\ InitPipeline
    /\ stamp = NoStamp
    /\ stdoutRun \in
          {[stage |-> "lines", input |-> ls, totalDuration |-> d,
            lastProgressUpdate |-> 0, fed |-> 0, events |-> <<>>] :
              ls \in UNION {[1..n -> ProgressLines] : n \in 0..MaxLines},
              d \in Durations}

\* The body of the handler's loop for the next complete line.
ProcessLine ==
    /\ stdoutRun.stage = "lines"
    /\ stdoutRun.fed < Len(stdoutRun.input)
    /\ LET i == stdoutRun.fed + 1
           timestampMatch == TimestampLineMatch(stdoutRun.input[i])
       IN  IF timestampMatch = <<>>
           THEN stdoutRun' = [stdoutRun EXCEPT !.fed = i]
           ELSE LET currentTime == ParseTimestampMs(EndTimeStr(timestampMatch))
                    total == stdoutRun.totalDuration
                IN  IF DurationKnown(total)
                       /\ Advances(currentTime, stdoutRun.lastProgressUpdate)
                    THEN stdoutRun' =
                            [stdoutRun EXCEPT
                               !.fed = i,
                               !.lastProgressUpdate = currentTime,
                               !.events = Emit(@, [line |-> i, kind |-> "percent",
                                                   elapsed |-> currentTime,
                                                   percent |-> Percent(currentTime, total)])]
                    ELSE stdoutRun' =
                            [stdoutRun EXCEPT
                               !.fed = i,
                               !.events = Emit(@, [line |-> i, kind |-> "generic",
                                                   elapsed |-> 0, percent |-> 0])]
    /\ UNCHANGED <<settings, command, archive, invocations, stamp>>
    /\ UNCHANGED <<isRecording, isProcessing, notices>>
    /\ UNCHANGED <<inserted, kind, pc, opState, opError, rtState,
                   currentFfmpegCommand, currentChildProcess, conv, convSig,
                   child, childSig, childCode, probe, files, cancelAt,
                   cancelLog>>
    /\ UNCHANGED runData

NextProgress == ProcessLine

SpecProgress == InitProgress /\ [][NextProgress]_vars

\* The progress events that carry an elapsed time.
Applied == {k \in DOMAIN stdoutRun.events : stdoutRun.events[k].kind = "percent"}

\* C23: the elapsed time applied for a line [start --> end] is its end
\* timestamp, with or without hours; [00:01.500 --> 00:04.200] with a total
\* of 10.0 s gives 42 percent.
C23_EndTimestampApplied ==
    stdoutRun.stage = "lines"
        => \A k \in Applied :
              LET e == stdoutRun.events[k] IN
              /\ e.elapsed = StampMs(stdoutRun.input[e.line].end)
              /\ (stdoutRun.input[e.line].end = Stamp(FALSE, 0, 0, 4, 200)
                     /\ stdoutRun.totalDuration = 10000) => e.percent = 42

\* C24: every applied elapsed time is greater than all applied before it.
C24_ProgressMonotonic ==
    stdoutRun.stage = "lines"
        => /\ \A j, k \in Applied :
                 j < k => stdoutRun.events[j].elapsed < stdoutRun.events[k].elapsed
           /\ \A k \in Applied :
                 stdoutRun.events[k].elapsed <= stdoutRun.lastProgressUpdate

\* C24 witness: two elapsed times were applied and a repeated or
\* out-of-order timestamp line was not.
C24_Witness ==
    /\ stdoutRun.stage = "lines"
    /\ Cardinality(Applied) >= 2
    /\ \E k \in DOMAIN stdoutRun.events :
          /\ stdoutRun.events[k].kind = "generic"
          /\ \E j \in Applied : j < k

\* C25: every percent emitted is in 0..100 and is
\* round(min(elapsed / total, 1.0) * 100).
C25_PercentClamped ==
    stdoutRun.stage = "lines"
        => \A k \in Applied :
              LET e == stdoutRun.events[k]
                  total == stdoutRun.totalDuration
              IN  /\ e.percent \in 0..100
                  /\ e.percent = IF e.elapsed >= total THEN 100
                                 ELSE ((200 * e.elapsed) + total) \div (2 * total)

\* C25 witness: an elapsed time beyond the total duration was applied.
C25_Witness ==
    /\ stdoutRun.stage = "lines"
    /\ \E k \in Applied :
          /\ stdoutRun.events[k].elapsed > stdoutRun.totalDuration
          /\ stdoutRun.events[k].percent = 100

\* C29: events reach the observer in the order of their lines, at most one
\* for a line, each in the step that processes its line.
C29_EventsInLineOrder ==
    [][stdoutRun.stage = "lines" /\ stdoutRun'.events # stdoutRun.events
          => /\ Len(stdoutRun'.events) = Len(stdoutRun.events) + 1
             /\ SubSeq(stdoutRun'.events, 1, Len(stdoutRun.events)) = stdoutRun.events
             /\ stdoutRun'.events[Len(stdoutRun'.events)].line = stdoutRun'.fed
             /\ \A k \in DOMAIN stdoutRun.events :
                   stdoutRun.events[k].line < stdoutRun'.fed]_vars

\* C29 witness: three lines gave three events.
C29_Witness ==
    /\ stdoutRun.stage = "lines"
    /\ Len(stdoutRun.events) = MaxLines


----------------------------------------------------------------------------
\* The stdout handler of runTranscription on data chunks: each chunk (a
\* Buffer of bytes) is decoded with toString, appended to the buffer, and
\* the buffer is split at newlines.  A character is "a", the newline "nl",
\* or "wide", whose UTF-8 encoding is the two bytes "hi" "lo"; "?" is the
\* replacement character.

\* Most characters in the recognizer's output.
MaxStreamLen == 3

StreamChars == {"a", "nl", "wide"}

RECURSIVE Encode(_)
\* The bytes the recognizer writes for a text.
Encode(text) ==
    IF text = <<>> THEN <<>>
    ELSE (IF Head(text) = "wide" THEN <<"hi", "lo">> ELSE <<Head(text)>>)
            \o Encode(Tail(text))

RECURSIVE Decode(_)
\* Buffer.toString of one chunk: an incomplete sequence at either end
\* becomes the replacement character.
Decode(bytes) ==
    IF bytes = <<>> THEN <<>>
    ELSE IF Head(bytes) = "hi" /\ Len(bytes) >= 2 /\ bytes[2] = "lo"
    THEN <<"wide">> \o Decode(SubSeq(bytes, 3, Len(bytes)))
    ELSE IF Head(bytes) \in {"hi", "lo"}
    THEN <<"?">> \o Decode(Tail(bytes))
    ELSE <<Head(bytes)>> \o Decode(Tail(bytes))

RECURSIVE Split(_)
\* String.prototype.split('\n'): the parts between the newlines, at least
\* one part.
Split(text) ==
    IF \A i \in DOMAIN text : text[i] # "nl" THEN <<text>>
    ELSE LET i == CHOOSE k \in DOMAIN text :
                     text[k] = "nl" /\ \A j \in 1..(k - 1) : text[j] # "nl"
         IN  <<SubSeq(text, 1, i - 1)>> \o Split(SubSeq(text, i + 1, Len(text)))

RECURSIVE ChunksAt(_, _, _)
\* The chunks of a byte stream cut after the positions in cuts.
ChunksAt(bytes, cuts, from) ==
    IF from > Len(bytes) THEN <<>>
    ELSE LET later == {c \in cuts : c >= from}
             to == IF later = {} THEN Len(bytes)
                   ELSE CHOOSE c \in later : \A d \in later : c <= d
         IN  <<SubSeq(bytes, from, to)>> \o ChunksAt(bytes, cuts, to + 1)

InitLines ==
    /\ InitPipeline
    /\ stamp = NoStamp
    /\ \E text \in UNION {[1..n -> StreamChars] : n \in 0..MaxStreamLen} :
          \E cuts \in SUBSET (1..(Len(Encode(text)) - 1)) :
             stdoutRun = [stage |-> "chunks", text |-> text,
                          chunks |-> ChunksAt(Encode(text), cuts, 1),
                          read |-> 0, buffer |-> <<>>, lines |-> <<>>]

\* The data event of stdout with the next chunk.
StdoutChunk ==
    /\ stdoutRun.stage = "chunks"
    /\ stdoutRun.read < Len(stdoutRun.chunks)
    /\ LET output == Decode(stdoutRun.chunks[stdoutRun.read + 1])
           lines == Split(stdoutRun.buffer \o output)
       IN  stdoutRun' = [stdoutRun EXCEPT
                            !.read = @ + 1,
                            !.lines = @ \o SubSeq(lines, 1, Len(lines) - 1),
                            !.buffer = lines[Len(lines)]]
    /\ UNCHANGED <<settings, command, archive, invocations, stamp>>
    /\ UNCHANGED <<isRecording, isProcessing, notices>>
    /\ UNCHANGED <<inserted, kind, pc, opState, opError, rtState,
                   currentFfmpegCommand, currentChildProcess, conv, convSig,
                   child, childSig, childCode, probe, files, cancelAt,
                   cancelLog>>
    /\ UNCHANGED runData

NextLines == StdoutChunk

SpecLines == InitLines /\ [][NextLines]_vars

\* C28: however the stream is cut into chunks, the lines appended are the
\* stream split at newlines, the unterminated rest held back.
C28_LinesIndependentOfChunks ==
    (stdoutRun.stage = "chunks" /\ stdoutRun.read = Len(stdoutRun.chunks))
        => LET parts == Split(stdoutRun.text) IN
           /\ stdoutRun.lines = SubSeq(parts, 1, Len(parts) - 1)
           /\ stdoutRun.buffer = parts[Len(parts)]


----------------------------------------------------------------------------
\* C31: isProcessing is true as long as an operation started by the plugin
\* has not settled.
C31_ProcessingWhileInFlight ==
    invocations.inFlight > 0 => isProcessing

\* C32: the first failing conversion rejects processAudioBlob in the same
\* step, the other conversion is neither awaited nor signalled, and the
\* recognizer is never spawned.
C32_FailFastLeavesSibling ==
    [][/\ \A c \in Conversions :
             (conv[c] # "failed" /\ conv'[c] = "failed")
                => /\ (pc = "transcoding" /\ opState = "pending")
                         => (opState' = "rejected" /\ opError' = "TranscodeError")
                   /\ \A d \in Conversions \ {c} : conv'[d] = conv[d]
                   /\ convSig' = convSig
                   /\ child' = "none" /\ rtState' = "none"
       /\ opError = "TranscodeError"
             => (opState' = "rejected" /\ child' = "none" /\ rtState' = "none")]_vars

\* C32 witness: the operation rejected with the transcode error while the
\* other conversion is running, unsignalled.
C32_Witness ==
    /\ opState = "rejected"
    /\ opError = "TranscodeError"
    /\ \E c \in Conversions : conv[c] = "running" /\ c \notin convSig

\* C33: without a probed duration no elapsed time is applied: every
\* timestamp line gets the generic label and the last applied time stays 0.
C33_NoPercentWithoutDuration ==
    (stdoutRun.stage = "lines" /\ stdoutRun.totalDuration = 0)
        => /\ Applied = {}
           /\ stdoutRun.lastProgressUpdate = 0
           /\ \A i \in 1..stdoutRun.fed :
                 stdoutRun.input[i].kind = "stamp"
                    => \E k \in DOMAIN stdoutRun.events :
                          /\ stdoutRun.events[k].line = i
                          /\ stdoutRun.events[k].kind = "generic"

\* C33 witness: a run without duration in which two timestamp lines with
\* growing times were processed.
C33_Witness ==
    /\ stdoutRun.stage = "lines"
    /\ stdoutRun.totalDuration = 0
    /\ stdoutRun.fed >= 2
    /\ stdoutRun.input[1].kind = "stamp"
    /\ stdoutRun.input[2].kind = "stamp"
    /\ StampMs(stdoutRun.input[1].end) < StampMs(stdoutRun.input[2].end)

====
